---- MODULE Spec2Model ----
(***************************************************************************)
(* Accent resolution service (packages/backend/main.py, handler analyze)   *)
(* and the offline candidate build (packages/backend/scripts/build_db.py). *)
(*                                                                         *)
(* Spec       the /api/analyze handler, run by the worker threads of the   *)
(*            server on one request text; the outcomes of the external     *)
(*            collaborators for that text (Sudachi, UniDic, accent_align,  *)
(*            the neural model) are drawn in Init.                         *)
(* SpecBuild  one or more runs of build_db.main over a corpus.             *)
(*                                                                         *)
(* Kana are written in ASCII: "ka" is a full-size kana, "xyo" a small      *)
(* (combining) kana.  The part of speech "noun" stands for the             *)
(* Sudachi tag compared at build_db.py:83.                                 *)
(***************************************************************************)
EXTENDS Integers, Sequences, FiniteSets, TLC

VARIABLES world, pc, handle, resp,
          corpus, idx, db, committed, count_total, count_nouns, count_valid,
          bpc, run

vars == <<world, pc, handle, resp,
          corpus, idx, db, committed, count_total, count_nouns, count_valid,
          bpc, run>>

serveVars == <<world, pc, handle, resp>>
buildVars == <<corpus, idx, db, committed, count_total, count_nouns,
               count_valid, bpc, run>>

(***************************************************************************)
(* Bounds                                                                  *)
(***************************************************************************)
\* longest reading (in kana) of a request text
MaxLen == 3
\* longest corpus of a build run
MaxCorpus == 3

(***************************************************************************)
(* Sequences                                                               *)
(***************************************************************************)
SeqsUpTo(S, n) == UNION {[1..k -> S] : k \in 0..n}

Min(a, b) == IF a < b THEN a ELSE b

\* seq[:n]
Take(seq, n) == SubSeq(seq, 1, Min(Len(seq), n))

\* [v] * n
Repeat(v, n) == [i \in 1..n |-> v]

RECURSIVE Join(_)
\* "".join(parts)
Join(parts) == IF parts = <<>> THEN <<>> ELSE Head(parts) \o Join(Tail(parts))

(***************************************************************************)
(* Readings and morae                                                      *)
(***************************************************************************)
Kana == {"ka", "xyo"}
SmallKana == {"xyo"}

RECURSIVE sep_katakana2mora(_)
\* A small kana joins the kana before it into one two-kana mora; every other
\* kana is a mora of its own.
sep_katakana2mora(yomi) ==
    IF yomi = <<>> THEN <<>>
    ELSE IF Len(yomi) >= 2 /\ yomi[2] \in SmallKana
         THEN <<SubSeq(yomi, 1, 2)>> \o sep_katakana2mora(SubSeq(yomi, 3, Len(yomi)))
         ELSE <<SubSeq(yomi, 1, 1)>> \o sep_katakana2mora(Tail(yomi))

(***************************************************************************)
(* The accent field of a UniDic morpheme: absent (None) or a string        *)
(***************************************************************************)
Digits == {"0", "1", "2", "3", "4", "5", "6", "7", "8", "9"}

AccNone == [present |-> FALSE, chars |-> <<>>]
AccStr(s) == [present |-> TRUE, chars |-> s]

AccFields == {AccNone, AccStr(<<>>), AccStr(<<"*">>), AccStr(<<"0">>),
              AccStr(<<"1">>), AccStr(<<"1", ",", "2">>)}

\* str.isdigit(): non-empty and every character a digit
isdigit(s) == Len(s) > 0 /\ \A i \in 1..Len(s) : s[i] \in Digits

\* the condition of main.py:132
UseDictionaryKernel(acc) == acc.present /\ acc.chars # <<>> /\ isdigit(acc.chars)

\* mecab_parsed: the morphemes of the best parse, one or two of them
MecabParses ==
    {<<[acc |-> a]>> : a \in AccFields}
    \cup {<<[acc |-> a], [acc |-> AccStr(<<"*">>)]>> : a \in AccFields}

(***************************************************************************)
(* The external collaborators' outcomes for the request text               *)
(***************************************************************************)
Readings == SeqsUpTo(Kana, MaxLen)

\* Sudachi's tokens, each given by its reading_form(): no token for the
\* empty text, else one token or two
TokenLists ==
    {<<>>}
    \cup {<<r>> : r \in Readings \ {<<>>}}
    \cup {<<r1, r2>> : r1 \in Readings \ {<<>>}, r2 \in Readings \ {<<>>}}

SudachiResults == {t \in TokenLists : Len(Join(t)) <= MaxLen}

\* accent_align works on len(roman) // 2 morae, which kana2roman decides:
\* its label per mora, 'L', 'H' or another character, for up to one mora
\* more than the reading has kana
LabelChars == {"L", "H", "."}
LabelSeqs == SeqsUpTo(LabelChars, MaxLen + 1)

\* the neural model's output, one code per position, padded or not
FALL == 0
CONTINUE == 1
RISE == 2
NeuralCodes == {FALL, CONTINUE, RISE}
CodeSeqs == SeqsUpTo(NeuralCodes, MaxLen + 1)

World(t, f, m, l, c) ==
    [tokens |-> t, found |-> f, mecab_parsed |-> m, labels |-> l, codes |-> c]

\* accent_align is called only when the dictionary kernel is used, the
\* model only when it is not, and neither when UniDic has no parse
IsWorld(w) ==
    \E t \in SudachiResults :
        \/ w = World(t, FALSE, <<>>, <<>>, <<>>)
        \/ \E m \in MecabParses :
               \/ /\ UseDictionaryKernel(m[1].acc)
                  /\ \E l \in LabelSeqs : w = World(t, TRUE, m, l, <<>>)
               \/ /\ ~UseDictionaryKernel(m[1].acc)
                  /\ \E c \in CodeSeqs : w = World(t, TRUE, m, <<>>, c)

(***************************************************************************)
(* analyze: the dictionary-kernel path                                     *)
(***************************************************************************)
\* accent_align writes each mora's label r = 2 times
accent_align(labels) == [i \in 1..(2 * Len(labels)) |-> labels[(i + 1) \div 2]]

\* acc_str_full[0::2]
Subsample(s) == [i \in 1..((Len(s) + 1) \div 2) |-> s[2 * i - 1]]

LOW == 1
HIGH == 2

\* [1 if c == 'L' else 2 if c == 'H' else 0 for c in acc_str]
LabelsToPreds(acc_str) ==
    [i \in 1..Len(acc_str) |->
        IF acc_str[i] = "L" THEN 1 ELSE IF acc_str[i] = "H" THEN 2 ELSE 0]

\* "Limit to morae length": cut to n, or pad with 1 up to n
LimitToMorae(preds, n) ==
    IF Len(preds) > n THEN Take(preds, n)
    ELSE IF Len(preds) < n THEN preds \o Repeat(1, n - Len(preds))
    ELSE preds

(***************************************************************************)
(* analyze: the visualization                                              *)
(***************************************************************************)
\* "[" before mora i: p == 2, i is not the first, and the previous is 1
Prefix(preds, i) ==
    IF preds[i] = 2 /\ i # 1 /\ preds[i - 1] = 1 THEN <<"[">> ELSE <<>>

\* "]" after a HIGH mora that is the last one too
SuffixAlsoAtEnd(preds, i) ==
    IF preds[i] = 2 /\ (i + 1 > Len(preds) \/ preds[i + 1] = 1)
    THEN <<"]">> ELSE <<>>

\* "]" after mora i: p == 2, a next prediction exists and is 1
Suffix(preds, i) ==
    IF preds[i] = 2 /\ i + 1 <= Len(preds) /\ preds[i + 1] = 1
    THEN <<"]">> ELSE <<>>

RECURSIVE RenderFrom(_, _, _)
RenderFrom(morae, preds, i) ==
    IF i > Min(Len(morae), Len(preds)) THEN <<>>
    ELSE Prefix(preds, i) \o morae[i] \o Suffix(preds, i)
         \o RenderFrom(morae, preds, i + 1)

\* for i, (m, p) in enumerate(zip(morae, preds)): display_str += ...
Render(morae, preds) == RenderFrom(morae, preds, 1)

(***************************************************************************)
(* analyze: the responses                                                  *)
(***************************************************************************)
NoResp == [status |-> "none", reading |-> <<>>, accent_pattern |-> <<>>,
           accent_code |-> <<>>, route |-> "none", raw |-> <<>>]

\* route and raw are not sent: route is the branch of main.py:132 taken, raw
\* the predictions before they are limited to the morae
Response(yomi, preds, route, raw) ==
    [status |-> "200", reading |-> yomi, accent_pattern |-> preds,
     accent_code |-> Render(sep_katakana2mora(yomi), preds),
     route |-> route, raw |-> raw]

\* raise HTTPException(status_code=400)
BadRequest == [NoResp EXCEPT !.status = "400"]

\* an exception that leaves the handler: the server answers 500
ServerError(route) == [NoResp EXCEPT !.status = "500", !.route = route]

\* the names the module and the handler bind before the fallback runs
ModuleGlobals ==
    {"FastAPI", "HTTPException", "BaseModel", "sys", "os", "np", "tokenizer",
     "dictionary", "InferAccent", "_convert_parsed_surface_to_codes",
     "_convert_yomi_to_codes", "normalize_jpn", "UniDic", "kana2roman",
     "sep_katakana2mora", "app", "AnalyzeRequest", "AnalyzeResponse",
     "tokenizer_obj", "mode", "accent_model", "unidic", "unidic_wrapper",
     "read_root", "analyze"}
HandlerLocals == {"roman_map", "accent_align", "to_np"}

\* a name the fallback reads that nothing binds raises NameError
FallbackNames == {"roman_map", "accent_map", "char_symbol_to_numeric", "np"}
NameError == ~(FallbackNames \subseteq (ModuleGlobals \cup HandlerLocals))

KernelResponse(w) ==
    LET yomi == Join(w.tokens)
        acc_str == Subsample(accent_align(w.labels))
        raw == LabelsToPreds(acc_str)
        morae == sep_katakana2mora(yomi)
    IN  Response(yomi, LimitToMorae(raw, Len(morae)), "kernel", raw)

\* preds = a_est[0].tolist(); preds = preds[:len(yomi)]
FallbackResponse(w) ==
    LET yomi == Join(w.tokens)
        preds == Take(w.codes, Len(yomi))
    IN  IF NameError THEN ServerError("neural")
        ELSE Response(yomi, preds, "neural", w.codes)

(***************************************************************************)
(* The server: worker threads run the synchronous handler                  *)
(***************************************************************************)
Workers == {"t1", "t2"}

\* tokens = tokenizer_obj.tokenize(text, mode): the call starts, on the one
\* tokenizer the module created
Receive(t) ==
    /\ pc[t] = "idle"
    /\ pc' = [pc EXCEPT ![t] = "tokenizing"]
    /\ handle' = [handle EXCEPT ![t] = "tokenizer_obj"]
    /\ UNCHANGED <<world, resp>>
    /\ UNCHANGED buildVars

Finish(t, r) ==
    /\ pc' = [pc EXCEPT ![t] = "done"]
    /\ handle' = [handle EXCEPT ![t] = "none"]
    /\ resp' = [resp EXCEPT ![t] = r]
    /\ UNCHANGED world
    /\ UNCHANGED buildVars

\* get_n_best found nothing
Reject(t) ==
    /\ pc[t] = "tokenizing"
    /\ ~world.found
    /\ Finish(t, BadRequest)

AnalyzeByKernel(t) ==
    /\ pc[t] = "tokenizing"
    /\ world.found
    /\ UseDictionaryKernel(world.mecab_parsed[1].acc)
    /\ Finish(t, KernelResponse(world))

AnalyzeByModel(t) ==
    /\ pc[t] = "tokenizing"
    /\ world.found
    /\ ~UseDictionaryKernel(world.mecab_parsed[1].acc)
    /\ Finish(t, FallbackResponse(world))

BuildOff ==
    /\ corpus = <<>>
    /\ idx = 0
    /\ db = <<>>
    /\ committed = <<>>
    /\ count_total = 0
    /\ count_nouns = 0
    /\ count_valid = 0
    /\ bpc = "off"
    /\ run = "none"

Init ==
    /\ IsWorld(world)
    /\ pc = [t \in Workers |-> "idle"]
    /\ handle = [t \in Workers |-> "none"]
    /\ resp = [t \in Workers |-> NoResp]
    /\ BuildOff

Next ==
    \/ \E t \in Workers : Receive(t)
    \/ \E t \in Workers : Reject(t)
    \/ \E t \in Workers : AnalyzeByKernel(t)
    \/ \E t \in Workers : AnalyzeByModel(t)

Spec == Init /\ [][Next]_vars

(***************************************************************************)
(* Properties of the analyze handler (specification Spec)                  *)
(***************************************************************************)
Done(t) == pc[t] = "done"
Answered(t) == Done(t) /\ resp[t].status = "200"
MoraCount == Len(sep_katakana2mora(Join(world.tokens)))

\* C1: every request UniDic has a parse for, on the dictionary-kernel path
\* and on the neural-fallback path alike, is answered with an accent_pattern
\* that has one label per mora of the reading.
C1_PatternHasMoraLength ==
    \A t \in Workers :
        (Done(t) /\ world.found) =>
            /\ resp[t].status = "200"
            /\ Len(resp[t].accent_pattern) = MoraCount

\* the notation the claim describes, mora by mora
ClaimedPrefix(pattern, i) ==
    IF i > 1 /\ pattern[i] = HIGH /\ pattern[i - 1] = LOW THEN <<"[">> ELSE <<>>
ClaimedSuffix(pattern, i) ==
    IF pattern[i] = HIGH /\ i < Len(pattern) /\ pattern[i + 1] = LOW
    THEN <<"]">> ELSE <<>>
ClaimedNotation(morae, pattern) ==
    Join([i \in 1..Len(morae) |->
            ClaimedPrefix(pattern, i) \o morae[i] \o ClaimedSuffix(pattern, i)])

IsLabelSeq(pattern) == \A i \in 1..Len(pattern) : pattern[i] \in {LOW, HIGH}

\* C2: for a pattern of LOW and HIGH labels the notation never starts with
\* "[" and never ends with "]"; "[" stands before mora i exactly when i is not
\* the first mora, pattern[i] is HIGH and pattern[i-1] is LOW, and "]" stands
\* after mora i exactly when pattern[i] is HIGH and the next mora exists and
\* is LOW.
C2_BracketsMarkRiseAndFall ==
    \A t \in Workers :
        (Answered(t) /\ IsLabelSeq(resp[t].accent_pattern)) =>
            LET code == resp[t].accent_code
                pattern == resp[t].accent_pattern
            IN  /\ code = ClaimedNotation(sep_katakana2mora(resp[t].reading), pattern)
                /\ code # <<>> => (code[1] # "[" /\ code[Len(code)] # "]")

\* a pattern that starts HIGH, falls, and rises to a HIGH run that reaches
\* the end of the word was rendered: "]" after mora 1, "[" before mora 3
C2_Witness ==
    \E t \in Workers :
        /\ Answered(t)
        /\ resp[t].accent_pattern = <<HIGH, LOW, HIGH>>
        /\ Len(resp[t].accent_code) = Len(resp[t].reading) + 2
        /\ \E i \in 1..Len(resp[t].accent_code) : resp[t].accent_code[i] = "["
        /\ \E i \in 1..Len(resp[t].accent_code) : resp[t].accent_code[i] = "]"

\* the normalization the claim describes
ClaimedNormalize(pattern, n) ==
    IF Len(pattern) >= n THEN Take(pattern, n)
    ELSE pattern \o Repeat(IF pattern = <<>> THEN LOW ELSE pattern[Len(pattern)],
                           n - Len(pattern))

\* C3: the returned pattern is the label sequence itself when it has the mora
\* count n, its first n labels when it is longer, and the sequence followed by
\* copies of its last label (LOW when it is empty) when it is shorter.
C3_PaddingRepeatsLastLabel ==
    \A t \in Workers :
        (Answered(t) /\ resp[t].route = "kernel") =>
            resp[t].accent_pattern = ClaimedNormalize(resp[t].raw, MoraCount)

RECURSIVE DecodeFrom(_, _, _)
DecodeFrom(codes, i, level) ==
    IF i > Len(codes) THEN <<>>
    ELSE <<level>> \o DecodeFrom(codes, i + 1,
                                 IF codes[i] = FALL THEN LOW
                                 ELSE IF codes[i] = RISE THEN HIGH
                                 ELSE level)

\* the running-level state machine the claim describes
Decode(codes) ==
    IF codes = <<>> THEN <<>>
    ELSE DecodeFrom(codes, 1, IF codes[1] = FALL THEN HIGH ELSE LOW)

\* C4: on the neural-fallback path the returned pattern is the decoding of
\* the model's codes by the running-level state machine, label by label, so
\* every label is LOW or HIGH.
C4_FallbackDecodesCodes ==
    \A t \in Workers :
        (Done(t) /\ world.found /\ resp[t].route = "neural") =>
            /\ resp[t].status = "200"
            /\ IsLabelSeq(resp[t].accent_pattern)
            /\ \A i \in 1..Min(Len(resp[t].accent_pattern), Len(world.codes)) :
                   resp[t].accent_pattern[i] = Decode(world.codes)[i]

\* C5: no two invocations in flight call tokenize on the same tokenizer.
C5_TokenizerNotShared ==
    \A t1 \in Workers : \A t2 \in Workers \ {t1} :
        (pc[t1] = "tokenizing" /\ pc[t2] = "tokenizing") =>
            handle[t1] # handle[t2]

\* C6: a text that both Sudachi and UniDic analyse into two or more tokens
\* is routed to the neural fallback, whatever kernel its first token carries.
C6_CompoundUsesFallback ==
    \A t \in Workers :
        (Done(t) /\ world.found /\ Len(world.tokens) >= 2
                 /\ Len(world.mecab_parsed) >= 2) =>
            resp[t].route = "neural"

\* C10: a single-token text whose accent field is "1,2" is resolved on the
\* kernel path, and no error is raised.
C10_FirstCandidateIsKernel ==
    \A t \in Workers :
        (Done(t) /\ world.found /\ Len(world.tokens) = 1
                 /\ Len(world.mecab_parsed) = 1
                 /\ world.mecab_parsed[1].acc = AccStr(<<"1", ",", "2">>)) =>
            /\ resp[t].route = "kernel"
            /\ resp[t].status = "200"

(***************************************************************************)
(* build_db: the collaborators' outcomes, word by word                     *)
(***************************************************************************)
KA(n) == Repeat("ka", n)

\* What Sudachi and the converter give for each corpus word: tokens holds
\* part_of_speech() of each token, kernel the accent kernel of the reading.
Word(toks, rd, k) ==
    [tok_raises |-> FALSE, tokens |-> toks, conv_raises |-> FALSE,
     reading |-> rd, kernel |-> k]

Noun == <<"noun", "common">>
Verb == <<"verb", "general">>

Texts == {"hashi", "kyoka", "kyo", "hashiru", "tokyoto", "long10", "long11",
          "tokfail", "convfail", "noreading", "nopos"}

Lexicon ==
    [x \in Texts |->
        CASE x = "hashi"     -> Word(<<Noun>>, KA(2), 1)
          [] x = "kyoka"     -> Word(<<Noun>>, <<"ka", "xyo", "ka">>, 0)
          [] x = "kyo"       -> Word(<<Noun>>, <<"ka", "xyo">>, 1)
          [] x = "hashiru"   -> Word(<<Verb>>, KA(3), 2)
          [] x = "tokyoto"   -> Word(<<Noun, Noun>>, KA(4), 0)
          [] x = "long10"    -> Word(<<Noun>>, KA(10), 3)
          [] x = "long11"    -> Word(<<Noun>>, KA(11), 3)
          [] x = "tokfail"   -> [Word(<<>>, <<>>, 0) EXCEPT !.tok_raises = TRUE]
          [] x = "convfail"  -> [Word(<<Noun>>, KA(2), 0) EXCEPT !.conv_raises = TRUE]
          [] x = "noreading" -> Word(<<Noun>>, <<>>, 0)
          [] x = "nopos"     -> Word(<<<<>>>>, KA(2), 0)]

\* Kernel Aligner: one label per mora for an accent kernel k
KernelAlign(n, k) ==
    [i \in 1..n |->
        IF n = 1 THEN HIGH
        ELSE IF k = 0 \/ k >= n THEN (IF i = 1 THEN LOW ELSE HIGH)
        ELSE IF k = 1 THEN (IF i = 1 THEN HIGH ELSE LOW)
        ELSE IF i = 1 THEN LOW ELSE IF i <= k THEN HIGH ELSE LOW]

\* CustomConverter.convert: raises, or returns the reading and its pattern,
\* one label per mora
convert(text) ==
    IF Lexicon[text].conv_raises THEN [raised |-> TRUE, reading |-> <<>>,
                                       accent_pattern |-> <<>>]
    ELSE [raised |-> FALSE, reading |-> Lexicon[text].reading,
          accent_pattern |->
              KernelAlign(Len(sep_katakana2mora(Lexicon[text].reading)),
                          Lexicon[text].kernel)]

(***************************************************************************)
(* build_db: the two filters and the table                                 *)
(***************************************************************************)
\* str(n) of a label
StrOfLabel(n) == IF n = 1 THEN "1" ELSE IF n = 2 THEN "2" ELSE "0"

\* str(pattern) of a list: "[1, 2]"
StrOfList(pattern) ==
    <<"[">>
    \o Join([i \in 1..Len(pattern) |->
                IF i = 1 THEN <<StrOfLabel(pattern[i])>>
                ELSE <<", ", StrOfLabel(pattern[i])>>])
    \o <<"]">>

\* the validations without the upper limit on the mora count
align_and_validate_no_upper_limit(text) ==
    LET result == convert(text)
        mora_count == Len(result.accent_pattern)
    IN  IF result.raised THEN <<>>
        ELSE IF result.reading = <<>> THEN <<>>
        ELSE IF mora_count < 2 THEN <<>>
        ELSE <<[text |-> text, reading |-> result.reading,
                accent_pattern |-> StrOfList(result.accent_pattern),
                mora_count |-> mora_count]>>

\* None is <<>>, a returned dict is <<dict>>
align_and_validate(text) ==
    LET result == convert(text)
        mora_count == Len(result.accent_pattern)
    IN  IF result.raised THEN <<>>
        ELSE IF result.reading = <<>> THEN <<>>
        ELSE IF mora_count < 2 \/ mora_count > 10 THEN <<>>
        ELSE <<[text |-> text, reading |-> result.reading,
                accent_pattern |-> StrOfList(result.accent_pattern),
                mora_count |-> mora_count]>>

\* the noun check without its try/except: the tokenizer's exception leaves it
is_noun_via_sudachi_uncaught(text) ==
    LET tokens == Lexicon[text].tokens
    IN  IF Lexicon[text].tok_raises THEN "raised"
        ELSE IF Len(tokens) # 1 THEN "False"
        ELSE IF tokens[1] # <<>> /\ tokens[1][1] = "noun" THEN "True"
        ELSE "False"

\* a tokenizer is created for the call (dic.create()) and used by it alone;
\* "raised" would be an exception leaving the function
is_noun_via_sudachi(text) ==
    LET tokens == Lexicon[text].tokens
    IN  IF Lexicon[text].tok_raises THEN "False"
        ELSE IF Len(tokens) # 1 THEN "False"
        ELSE IF tokens[1] # <<>> /\ tokens[1][1] = "noun" THEN "True"
        ELSE "False"

HasText(rows, text) == \E i \in 1..Len(rows) : rows[i].text = text

NewRow(rows, data) ==
    [id |-> Len(rows) + 1, text |-> data.text, reading |-> data.reading,
     accent_pattern |-> data.accent_pattern, mora_count |-> data.mora_count]

\* INSERT into a table whose text column is not UNIQUE
InsertAlways(rows, data) == Append(rows, NewRow(rows, data))

\* INSERT OR IGNORE into candidates, whose text column is UNIQUE
InsertOrIgnore(rows, data) ==
    IF HasText(rows, data.text) THEN rows ELSE Append(rows, NewRow(rows, data))

(***************************************************************************)
(* build_db.main: the loop over the corpus, the commit, a later run        *)
(***************************************************************************)
Corpora == SeqsUpTo(Texts, MaxCorpus)

\* candidates = [line.strip() for line in f if line.strip()]
LoadCorpus ==
    /\ bpc = "start"
    /\ corpus' \in Corpora
    /\ bpc' = "loop"
    /\ UNCHANGED <<idx, db, committed, count_total, count_nouns, count_valid, run>>
    /\ UNCHANGED serveVars

InLoop == bpc = "loop" /\ idx < Len(corpus)
word == corpus[idx + 1]

\* Filter 1 fails: continue.  An exception leaving the noun check would
\* leave main before the commit.
SkipNotNoun ==
    /\ InLoop
    /\ is_noun_via_sudachi(word) # "True"
    /\ idx' = idx + 1
    /\ count_total' = count_total + 1
    /\ bpc' = IF is_noun_via_sudachi(word) = "raised" THEN "aborted" ELSE "loop"
    /\ db' = IF is_noun_via_sudachi(word) = "raised" THEN committed ELSE db
    /\ UNCHANGED <<corpus, committed, count_nouns, count_valid, run>>
    /\ UNCHANGED serveVars

\* Filter 2 fails: continue
SkipInvalid ==
    /\ InLoop
    /\ is_noun_via_sudachi(word) = "True"
    /\ align_and_validate(word) = <<>>
    /\ idx' = idx + 1
    /\ count_total' = count_total + 1
    /\ count_nouns' = count_nouns + 1
    /\ UNCHANGED <<corpus, db, committed, count_valid, bpc, run>>
    /\ UNCHANGED serveVars

InsertWord ==
    /\ InLoop
    /\ is_noun_via_sudachi(word) = "True"
    /\ align_and_validate(word) # <<>>
    /\ db' = InsertOrIgnore(db, align_and_validate(word)[1])
    /\ idx' = idx + 1
    /\ count_total' = count_total + 1
    /\ count_nouns' = count_nouns + 1
    /\ count_valid' = count_valid + 1
    /\ UNCHANGED <<corpus, committed, bpc, run>>
    /\ UNCHANGED serveVars

\* conn.commit(); conn.close(); the summary
Commit ==
    /\ bpc = "loop"
    /\ idx = Len(corpus)
    /\ committed' = db
    /\ bpc' = "done"
    /\ UNCHANGED <<corpus, idx, db, count_total, count_nouns, count_valid, run>>
    /\ UNCHANGED serveVars

\* the script is run once more on the same corpus and database file
Rerun ==
    /\ bpc = "done"
    /\ run = "first"
    /\ run' = "again"
    /\ idx' = 0
    /\ db' = committed
    /\ count_total' = 0
    /\ count_nouns' = 0
    /\ count_valid' = 0
    /\ bpc' = "loop"
    /\ UNCHANGED <<corpus, committed>>
    /\ UNCHANGED serveVars

InitBuild ==
    /\ corpus = <<>>
    /\ idx = 0
    /\ db = <<>>
    /\ committed = <<>>
    /\ count_total = 0
    /\ count_nouns = 0
    /\ count_valid = 0
    /\ bpc = "start"
    /\ run = "first"
    /\ world = World(<<>>, FALSE, <<>>, <<>>, <<>>)
    /\ pc = [t \in Workers |-> "idle"]
    /\ handle = [t \in Workers |-> "none"]
    /\ resp = [t \in Workers |-> NoResp]

NextBuild ==
    \/ LoadCorpus
    \/ SkipNotNoun
    \/ SkipInvalid
    \/ InsertWord
    \/ Commit
    \/ Rerun

SpecBuild == InitBuild /\ [][NextBuild]_vars

(***************************************************************************)
(* Properties of the build (specification SpecBuild)                       *)
(***************************************************************************)
Rows(rows) == {rows[i] : i \in 1..Len(rows)}

\* the word is one token, a noun
SingleNoun(text) ==
    /\ ~Lexicon[text].tok_raises
    /\ Len(Lexicon[text].tokens) = 1
    /\ Lexicon[text].tokens[1] # <<>>
    /\ Lexicon[text].tokens[1][1] = "noun"

\* the word passes both filters of the build
Storable(text) ==
    /\ SingleNoun(text)
    /\ ~Lexicon[text].conv_raises
    /\ Lexicon[text].reading # <<>>
    /\ Len(sep_katakana2mora(Lexicon[text].reading)) \in 2..10

\* the word makes the tokenizer or the converter raise
Raises(text) == Lexicon[text].tok_raises \/ Lexicon[text].conv_raises

OnePerText(rows) ==
    \A i \in 1..Len(rows) : \A j \in 1..Len(rows) :
        rows[i].text = rows[j].text => i = j

\* C7: the store never holds two records of the same surface text, in the
\* connection or in the committed file, through duplicates in the corpus and
\* through repeated runs; processing a word whose text is already stored
\* leaves every record and the record count as they were, and no insert
\* stops the run with an error.
C7_OneRecordPerText ==
    [][/\ OnePerText(db')
       /\ OnePerText(committed')
       /\ bpc' # "aborted"
       /\ (InLoop /\ HasText(db, word)) => db' = db]_vars

\* a second run over a corpus that stored a word has inserted it again
C7_Witness ==
    /\ run = "again"
    /\ bpc = "done"
    /\ count_valid >= 1
    /\ Len(committed) >= 1

\* C8: every record of the store is of a word that is one noun token with a
\* non-empty reading and 2 to 10 morae, and its mora_count is the number of
\* morae of its reading.
C8_OnlyValidatedNounsStored ==
    \A r \in Rows(db) \cup Rows(committed) :
        /\ SingleNoun(r.text)
        /\ r.reading # <<>>
        /\ r.mora_count \in 2..10
        /\ r.mora_count = Len(sep_katakana2mora(r.reading))
        /\ Storable(r.text)

\* a run has finished that met a word of 11 morae and stored one of 10
C8_Witness ==
    /\ bpc = "done"
    /\ \E i \in 1..Len(corpus) :
           Len(sep_katakana2mora(Lexicon[corpus[i]].reading)) = 11
    /\ \E r \in Rows(committed) : r.mora_count = 10

\* C9: the run never stops on a word: every word up to the current one has
\* been counted, each storable one among them has its record, and the commit
\* keeps them all.
C9_FailureSkipsOneWord ==
    /\ bpc # "aborted"
    /\ count_total = idx
    /\ \A i \in 1..idx : Storable(corpus[i]) => HasText(db, corpus[i])
    /\ bpc = "done" =>
           /\ idx = Len(corpus)
           /\ committed = db

\* a run has committed a corpus with a raising word between two stored words
C9_Witness ==
    /\ bpc = "done"
    /\ \E i \in 1..Len(corpus) : \E j \in 1..Len(corpus) : \E k \in 1..Len(corpus) :
           /\ i < j /\ j < k
           /\ Raises(corpus[j])
           /\ corpus[i] # corpus[k]
           /\ HasText(committed, corpus[i])
           /\ HasText(committed, corpus[k])

====
